---- MODULE Spec2Model ----
(***************************************************************************)
(* Model of the laboratory inventory dashboard (VC.py) and of the offline  *)
(* user-creation utility (create_users.py).                                *)
(*                                                                         *)
(* One action is one run of the Streamlit script for one browser session   *)
(* (the script is re-executed top to bottom on every widget event), or one *)
(* run of the offline utility.  The files users.csv, audit_log.csv and the *)
(* inventory spreadsheet are shared by all sessions; st.session_state is   *)
(* per session; the st.cache_data cache of load_inventory is shared.       *)
(*                                                                         *)
(* Text is modelled as TLA+ strings where only equality matters            *)
(* (usernames, passwords, item names) and as sequences of one-character    *)
(* strings where the code looks inside the text (item ids, hex salts,      *)
(* the iteration count).                                                   *)
(***************************************************************************)
EXTENDS Integers, Sequences, FiniteSets, TLC

VARIABLES
    usersFile,   \* users.csv: [exists, rows]
    invFile,     \* biomedical_lab_inventory.xlsx: [exists, rows]
    auditLog,    \* audit_log.csv: sequence of entries
    cache,       \* st.cache_data entry of load_inventory(): [valid, rows]
    username,    \* st.session_state["username"] per session (NoUser if unset)
    inventory,   \* st.session_state["inventory_df"] per session: [loaded, rows]
    last,        \* the most recent step: [s, res], who ran and what was shown
    idTable,     \* input of the next_item_id harness: a column of item ids
    idResult,    \* result of the next_item_id harness
    cred,        \* state of the credential harness: the created row and the check
    expiryCol,   \* input of the expiry harness: [col, tod], the "Expiry Date"
                 \* column and the time of day of datetime.today(), in hours
    expiryOut    \* what the Expiry Monitor or the Overview showed for expiryCol

vars == <<usersFile, invFile, auditLog, cache, username, inventory, last,
          idTable, idResult, cred, expiryCol, expiryOut>>

(***************************************************************************)
(* Bounds of the model.                                                    *)
(***************************************************************************)
MaxLog == 2      \* audit entries (completed mutations) explored
MaxUsers == 3    \* rows of users.csv explored
MaxRows == 2     \* rows of the inventory explored
MaxIds == 3      \* length of the id column in the next_item_id harness

Sessions == {"s1", "s2"}
Offline == "offline"   \* create_users.py run from a shell
Clock == "clock"       \* the passing of time, no run of any script
NoUser == "<none>"   \* "username" not in st.session_state

----------------------------------------------------------------------------
(***************************************************************************)
(* Text helpers: Python str <-> int, str.upper, str.isdigit.               *)
(***************************************************************************)
Digits == <<"0", "1", "2", "3", "4", "5", "6", "7", "8", "9">>

IsDigit(c) == \E i \in 1..10 : Digits[i] = c

DigitVal(c) == (CHOOSE i \in 1..10 : Digits[i] = c) - 1

\* str.isdigit(): non-empty and every character a digit
isdigit(s) == Len(s) > 0 /\ \A i \in 1..Len(s) : IsDigit(s[i])

RECURSIVE int(_)
\* int(s) for a string of decimal digits
int(s) == IF Len(s) = 0 THEN 0
          ELSE int(SubSeq(s, 1, Len(s) - 1)) * 10 + DigitVal(s[Len(s)])

RECURSIVE str(_)
\* str(n) for n >= 0
str(n) == IF n < 10 THEN <<Digits[n + 1]>>
          ELSE str(n \div 10) \o <<Digits[(n % 10) + 1]>>

\* f"{n:03d}": at least three digits, zero padded on the left
Format03d(n) ==
    LET d == str(n)
    IN  IF Len(d) >= 3 THEN d ELSE [i \in 1..(3 - Len(d)) |-> "0"] \o d

UpperChar(c) ==
    CASE c = "l" -> "L"
      [] c = "a" -> "A"
      [] c = "b" -> "B"
      [] c = "x" -> "X"
      [] OTHER -> c

upper(s) == [i \in 1..Len(s) |-> UpperChar(s[i])]

startswith(s, p) == Len(s) >= Len(p) /\ SubSeq(s, 1, Len(p)) = p

Max(S) == CHOOSE m \in S : \A x \in S : x <= m

Range(f) == {f[i] : i \in DOMAIN f}

----------------------------------------------------------------------------
(***************************************************************************)
(* Credential store: users.csv.                                            *)
(***************************************************************************)
PBKDF2_ITER_DEFAULT == 200000
ITERATIONS == 200000

\* pandas reads these cell texts as missing values (NaN), also with dtype=str
NaValues == {"", "NA", "N/A", "NaN", "nan", "null", "NULL", "#N/A", "<NA>"}

\* the missing value of a data frame; no text typed into a form equals it
NaN == "<NaN>"

\* == on a data-frame cell: a missing value equals nothing, not even itself
PyEq(a, b) == a # NaN /\ b # NaN /\ a = b

\* pd.read_csv(..., dtype=str) on one cell of the username column
read_csv_cell(text) == IF text \in NaValues THEN NaN ELSE text

\* DataFrame.to_csv on one cell of the username column
to_csv_cell(v) == IF v = NaN THEN "" ELSE v

HexChars == <<"0", "1", "2", "3", "4", "5", "6", "7", "8", "9",
              "a", "b", "c", "d", "e", "f">>

IsHex(c) == \E i \in 1..16 : HexChars[i] = c

HexVal(c) == (CHOOSE i \in 1..16 : HexChars[i] = c) - 1

\* ASCII code of a hexadecimal character (str.encode("utf-8"))
Ascii(c) == IF IsDigit(c) THEN 48 + DigitVal(c) ELSE 97 + (HexVal(c) - 10)

\* binascii.hexlify: two lower-case hex characters per byte
hexlify(bytes) ==
    [i \in 1..(2 * Len(bytes)) |->
        IF i % 2 = 1 THEN HexChars[(bytes[(i + 1) \div 2] \div 16) + 1]
        ELSE HexChars[(bytes[i \div 2] % 16) + 1]]

\* binascii.unhexlify succeeds on an even number of hex characters
CanUnhexlify(hex) == Len(hex) % 2 = 0 /\ \A i \in 1..Len(hex) : IsHex(hex[i])

unhexlify(hex) ==
    [i \in 1..(Len(hex) \div 2) |-> 16 * HexVal(hex[2 * i - 1]) + HexVal(hex[2 * i])]

\* hashlib.pbkdf2_hmac("sha256", password, salt, iterations), hex encoded.
\* The digest is a black box: it is modelled as collision free, a value that
\* is determined by, and determines, the three inputs.
pbkdf2_hex(password, salt, iterations) ==
    [pw |-> password, salt |-> salt, iter |-> iterations]

\* verify_password_pbkdf2 as it would be if the salt text were never decoded
verify_password_pbkdf2_RawSalt(password, salt_hex, hash_hex, iterations) ==
    pbkdf2_hex(password, [i \in 1..Len(salt_hex) |-> Ascii(salt_hex[i])], iterations)
        = hash_hex

\* verify_password_pbkdf2: the try/except around unhexlify falls back to the
\* raw characters of the salt text
verify_password_pbkdf2(password, salt_hex, hash_hex, iterations) ==
    LET salt == IF CanUnhexlify(salt_hex) THEN unhexlify(salt_hex)
                ELSE [i \in 1..Len(salt_hex) |-> Ascii(salt_hex[i])]
    IN  pbkdf2_hex(password, salt, iterations) = hash_hex

\* the row add_user_to_csv and create_user build from os.urandom's bytes
NewUserRow(user, password, saltBytes, iterations) ==
    LET salt == hexlify(saltBytes)
    IN  [username |-> user,
         salt |-> salt,
         hash |-> pbkdf2_hex(password, unhexlify(salt), iterations),
         iterations |-> str(iterations)]

NoUsersFile == [exists |-> FALSE, rows |-> <<>>]

\* pd.read_csv(filepath, dtype=str): the rows as the data frame holds them
read_csv(file) ==
    [i \in 1..Len(file.rows) |->
        [file.rows[i] EXCEPT !.username = read_csv_cell(@)]]

\* df.to_csv(filepath, index=False)
to_csv(df) ==
    [exists |-> TRUE,
     rows |-> [i \in 1..Len(df) |-> [df[i] EXCEPT !.username = to_csv_cell(@)]]]

\* load_users: an empty frame when the file is missing
load_users(file) == IF file.exists THEN read_csv(file) ELSE <<>>

\* username in df["username"].tolist()  /  username in df["username"].values
UsernameIn(user, df) == \E i \in 1..Len(df) : PyEq(df[i].username, user)

\* add_user_to_csv and create_user share this body: [ok, file]; ok is FALSE
\* when ValueError("... already exists") is raised before any write
AppendUser(file, user, password, saltBytes, iterations) ==
    LET row == NewUserRow(user, password, saltBytes, iterations)
    IN  IF file.exists
        THEN LET df == read_csv(file)
             IN  IF UsernameIn(user, df)
                 THEN [ok |-> FALSE, file |-> file]
                 ELSE [ok |-> TRUE, file |-> to_csv(Append(df, row))]
        ELSE [ok |-> TRUE, file |-> to_csv(<<row>>)]

add_user_to_csv(file, user, password, saltBytes) ==
    AppendUser(file, user, password, saltBytes, PBKDF2_ITER_DEFAULT)

create_user(file, user, password, saltBytes) ==
    AppendUser(file, user, password, saltBytes, ITERATIONS)

\* delete_user_from_csv: [ok, file]; ok is FALSE when ValueError("Username not
\* found.") is raised before any write
delete_user_from_csv(file, user) ==
    LET df == load_users(file)
    IN  IF ~UsernameIn(user, df)
        THEN [ok |-> FALSE, file |-> file]
        ELSE [ok |-> TRUE,
              file |-> to_csv(SelectSeq(df, LAMBDA r : ~PyEq(r.username, user)))]

\* is_admin_user as it would be if every listed user were the admin
is_admin_user_AnyRow(file, user) == UsernameIn(user, load_users(file))

\* is_admin_user
is_admin_user(file, user) ==
    LET df == load_users(file)
    IN  IF Len(df) = 0 THEN FALSE ELSE PyEq(user, df[1].username)

----------------------------------------------------------------------------
(***************************************************************************)
(* Inventory store: the spreadsheet, its cells and the data frame.         *)
(*                                                                         *)
(* A spreadsheet row is [id, name, qty, reorder, remarks, expiry].  The    *)
(* cells of Quantity and Reorder Level are [k, v]:                         *)
(*   "int"       the number v                                              *)
(*   "float"     the number v + 0.5  (v >= 0)                              *)
(*   "numtext"   the text of the integer v, e.g. "7"                       *)
(*   "floattext" the text of the number v + 0.5, e.g. "2.5"                *)
(*   "text"      a text that is no number, e.g. "abc"                      *)
(*   "blank"     an empty cell                                             *)
(* In a data frame after coercion they are Python ints.                    *)
(***************************************************************************)
CellInt(n) == [k |-> "int", v |-> n]
CellFloat(n) == [k |-> "float", v |-> n]
CellNumText(n) == [k |-> "numtext", v |-> n]
CellText == [k |-> "text", v |-> 0]
CellBlank == [k |-> "blank", v |-> 0]

\* read_excel(..., dtype=str) on a numeric column: numbers become their text
astype_str(cell) ==
    CASE cell.k = "int" -> [cell EXCEPT !.k = "numtext"]
      [] cell.k = "float" -> [cell EXCEPT !.k = "floattext"]
      [] OTHER -> cell

\* pd.to_numeric(col, errors="coerce").fillna(0).astype(int) on one cell:
\* what does not parse becomes NaN and then 0; astype(int) truncates
to_numeric_int(cell) ==
    CASE cell.k \in {"int", "numtext"} -> cell.v
      [] cell.k \in {"float", "floattext"} -> cell.v
      [] OTHER -> 0

\* read_excel on a text cell: empty cells and the default NA texts are NaN
read_excel_text(t) == IF t \in NaValues THEN NaN ELSE t

\* to_excel on a text cell: NaN is written as an empty cell
to_excel_text(t) == IF t = NaN THEN "" ELSE t

NoInvFile == [exists |-> FALSE, rows |-> <<>>]

\* lines 66-69 (load) and 597-600 (bulk upload): both numeric columns coerced
CoerceRow(r, asStr) ==
    [id |-> r.id,
     name |-> read_excel_text(r.name),
     qty |-> to_numeric_int(IF asStr THEN astype_str(r.qty) ELSE r.qty),
     reorder |-> to_numeric_int(IF asStr THEN astype_str(r.reorder) ELSE r.reorder),
     remarks |-> read_excel_text(r.remarks),
     expiry |-> read_excel_text(r.expiry)]

\* the uncached body of load_inventory: an empty frame when the file is missing
read_inventory(file) ==
    IF ~file.exists THEN <<>>
    ELSE [i \in 1..Len(file.rows) |-> CoerceRow(file.rows[i], TRUE)]

\* @st.cache_data(ttl=600) load_inventory: [rows, cache]; a valid cache entry is
\* returned without reading the file
load_inventory(file, c) ==
    IF c.valid THEN [rows |-> c.rows, cache |-> c]
    ELSE LET df == read_inventory(file)
         IN  [rows |-> df, cache |-> [valid |-> TRUE, rows |-> df]]

\* df.to_excel(path, index=False)
to_excel(df) ==
    [exists |-> TRUE,
     rows |-> [i \in 1..Len(df) |->
                 [id |-> df[i].id,
                  name |-> to_excel_text(df[i].name),
                  qty |-> CellInt(df[i].qty),
                  reorder |-> CellInt(df[i].reorder),
                  remarks |-> to_excel_text(df[i].remarks),
                  expiry |-> to_excel_text(df[i].expiry)]]]

LAB == <<"L", "A", "B">>

\* next_item_id: ids that read LAB (any case) followed by digits only
IsLabId(v) == startswith(upper(v), LAB) /\ isdigit(SubSeq(v, 4, Len(v)))

\* next_item_id as it would be if it counted the ids instead of taking the maximum
next_item_id_Count(ids) ==
    LET nums == {int(SubSeq(ids[i], 4, Len(ids[i]))) :
                    i \in {j \in 1..Len(ids) : IsLabId(ids[j])}}
    IN  LAB \o Format03d(Cardinality(nums) + 1)

next_item_id(ids) ==
    LET nums == {int(SubSeq(ids[i], 4, Len(ids[i]))) :
                    i \in {j \in 1..Len(ids) : IsLabId(ids[j])}}
        n == IF nums # {} THEN Max(nums) + 1 ELSE 1
    IN  LAB \o Format03d(n)

ItemIds(df) == [i \in 1..Len(df) |-> df[i].id]

\* log_action as it would be if the file were opened with "w" instead of "a"
log_action_Overwrite(log, user, action_desc) ==
    <<[user |-> user, action |-> action_desc]>>

\* log_action: one line per call, appended
log_action(log, user, action_desc) ==
    Append(log, [user |-> user, action |-> action_desc])

----------------------------------------------------------------------------
(***************************************************************************)
(* Inputs explored: what is typed into the forms, drawn by os.urandom, or  *)
(* uploaded.                                                               *)
(***************************************************************************)
UserPool == {"amy", "bob", ""}
PwPool == {"pw1", "pw2"}         \* typed at the login form
NewPwPool == {"pw1"}             \* given to a new user
SaltPool == {<<171>>}            \* os.urandom, shortened to one byte
NamePool == {"Gloves"}
QtyPool == {5}                   \* Add Item: st.number_input(min_value=0)
ReorderPool == {1}
RemarksPool == {"ok"}
ExpPool == {""}
EditQtyPool == {0}               \* Edit Item: st.number_input(min_value=0)
EditReorderPool == {2}
EditRemarksPool == {"checked"}

LAB001 == <<"L", "A", "B", "0", "0", "1">>
LAB003 == <<"L", "A", "B", "0", "0", "3">>
lab002 == <<"l", "a", "b", "0", "0", "2">>

SheetRow(id, qty, reorder) ==
    [id |-> id, name |-> "Gloves", qty |-> qty, reorder |-> reorder,
     remarks |-> "", expiry |-> "N/A"]

\* a spreadsheet kept by hand before the dashboard is first used
HandMadeFile ==
    [exists |-> TRUE,
     rows |-> <<SheetRow(LAB001, CellNumText(4), CellText),
                SheetRow(lab002, CellFloat(2), CellBlank)>>]

\* uploaded workbooks: [hasItemId, rows]
UploadNoItemId == [hasItemId |-> FALSE, rows |-> <<SheetRow(LAB001, CellInt(5), CellInt(1))>>]
UploadDuplicateIds ==
    [hasItemId |-> TRUE,
     rows |-> <<SheetRow(LAB001, CellInt(1), CellInt(1)), SheetRow(LAB001, CellInt(2), CellInt(1))>>]
UploadNegative == [hasItemId |-> TRUE, rows |-> <<SheetRow(LAB003, CellInt(-5), CellText)>>]
UploadPool == {UploadNoItemId, UploadDuplicateIds, UploadNegative}

----------------------------------------------------------------------------
(***************************************************************************)
(* The dashboard: one action per script run.                               *)
(***************************************************************************)
\* no view of the expiry harness has been rendered
NoExpiryOut ==
    [view |-> "none", filter |-> "", show |-> {}, status |-> <<>>, counts |-> <<>>,
     soon |-> 0]

ExpiryIdle ==
    /\ expiryCol = [col |-> <<>>, tod |-> 0]
    /\ expiryOut = NoExpiryOut

Init ==
    /\ usersFile = NoUsersFile
    /\ invFile \in {NoInvFile, HandMadeFile}
    /\ auditLog = <<>>
    /\ cache = [valid |-> FALSE, rows |-> <<>>]
    /\ username = [s \in Sessions |-> NoUser]
    /\ inventory = [s \in Sessions |-> [loaded |-> FALSE, rows |-> <<>>]]
    /\ last = [s |-> "none", res |-> "start"]
    /\ idTable = <<>>
    /\ idResult = <<>>
    /\ cred = [stage |-> "idle", pw |-> "", tried |-> "", ok |-> FALSE]
    /\ ExpiryIdle

Harness == <<idTable, idResult, cred, expiryCol, expiryOut>>

Authenticated(s) == username[s] # NoUser

\* the most recent run: the session (or the offline utility) and what it showed
Ran(s, res) == last' = [s |-> s, res |-> res]

\* lines 215-222: the first authenticated run of a session loads the table
LoadIntoSession(s) ==
    IF inventory[s].loaded
    THEN UNCHANGED <<inventory, cache>>
    ELSE LET r == load_inventory(invFile, cache)
         IN  /\ inventory' = [inventory EXCEPT ![s] = [loaded |-> TRUE, rows |-> r.rows]]
             /\ cache' = r.cache

\* Login as it would be if the password were not verified
Login_NoVerify(s, u, p) ==
    /\ ~Authenticated(s)
    /\ LET users_df == load_users(usersFile)
           hits == {i \in 1..Len(users_df) : PyEq(users_df[i].username, u)}
       IN  IF hits = {}
           THEN /\ Ran(s, "invalid")
                /\ UNCHANGED <<username, inventory, cache>>
           ELSE /\ username' = [username EXCEPT ![s] = u]
                /\ LoadIntoSession(s)
                /\ Ran(s, "signed_in")
    /\ UNCHANGED <<usersFile, invFile, auditLog, Harness>>

\* login_ui with the Login button pressed, and the rest of that run
Login(s, u, p) ==
    /\ ~Authenticated(s)
    /\ LET users_df == load_users(usersFile)
           hits == {i \in 1..Len(users_df) : PyEq(users_df[i].username, u)}
       IN  IF hits = {}
           THEN /\ Ran(s, "invalid")
                /\ UNCHANGED <<username, inventory, cache>>
           ELSE LET row == users_df[CHOOSE i \in hits : \A j \in hits : i <= j]
                IN  IF verify_password_pbkdf2(p, row.salt, row.hash, int(row.iterations))
                    THEN /\ username' = [username EXCEPT ![s] = u]
                         /\ LoadIntoSession(s)
                         /\ Ran(s, "signed_in")
                    ELSE /\ Ran(s, "invalid")
                         /\ UNCHANGED <<username, inventory, cache>>
    /\ UNCHANGED <<usersFile, invFile, auditLog, Harness>>

\* a run with no button pressed: the login prompt, or a view of the table
View(s) ==
    /\ IF Authenticated(s) THEN Ran(s, "shown")
       ELSE Ran(s, "login_prompt")
    /\ UNCHANGED <<usersFile, invFile, auditLog, cache, username, inventory, Harness>>

\* lines 210-212
Logout(s) ==
    /\ Authenticated(s)
    /\ username' = [username EXCEPT ![s] = NoUser]
    /\ Ran(s, "login_prompt")
    /\ UNCHANGED <<usersFile, invFile, auditLog, cache, inventory, Harness>>

\* the browser opens a new session: st.session_state starts empty
NewSession(s) ==
    /\ username' = [username EXCEPT ![s] = NoUser]
    /\ inventory' = [inventory EXCEPT ![s] = [loaded |-> FALSE, rows |-> <<>>]]
    /\ Ran(s, "login_prompt")
    /\ UNCHANGED <<usersFile, invFile, auditLog, cache, Harness>>

\* ttl=600 of load_inventory's cache entry runs out
CacheExpire ==
    /\ cache.valid
    /\ cache' = [valid |-> FALSE, rows |-> <<>>]
    /\ Ran(Clock, "cache_expired")
    /\ UNCHANGED <<usersFile, invFile, auditLog, username, inventory, Harness>>

\* save_inventory as it would be without the call of log_action
save_inventory_NoLog(s, df, action_desc) ==
    /\ invFile' = to_excel(df)
    /\ inventory' = [inventory EXCEPT ![s] = [loaded |-> TRUE, rows |-> df]]
    /\ auditLog' = auditLog

\* save_inventory as it would be if the working copy were one module-level
\* table of the server process instead of an entry of st.session_state
save_inventory_Shared(s, df, action_desc) ==
    /\ invFile' = to_excel(df)
    /\ inventory' = [t \in Sessions |-> [loaded |-> TRUE, rows |-> df]]
    /\ auditLog' = log_action(auditLog,
                              IF Authenticated(s) THEN username[s] ELSE "Unknown User",
                              action_desc)

\* save_inventory: write the file, replace the session copy, log one line
save_inventory(s, df, action_desc) ==
    /\ invFile' = to_excel(df)
    /\ inventory' = [inventory EXCEPT ![s] = [loaded |-> TRUE, rows |-> df]]
    /\ auditLog' = log_action(auditLog,
                              IF Authenticated(s) THEN username[s] ELSE "Unknown User",
                              action_desc)

\* Add Item as it would be if the row, with the id the form was rendered with,
\* were appended to a table read afresh from the file
AddItem_ReloadBeforeAppend(s, name, qty, reorder, remarks, exp) ==
    /\ Authenticated(s)
    /\ Len(auditLog) < MaxLog
    /\ Len(inventory[s].rows) < MaxRows
    /\ LET df == inventory[s].rows
           row == [id |-> next_item_id(ItemIds(df)), name |-> name, qty |-> qty,
                   reorder |-> reorder, remarks |-> remarks,
                   expiry |-> IF exp # "" THEN exp ELSE "N/A"]
       IN  save_inventory(s, Append(read_inventory(invFile), row), "Added new item")
    /\ Ran(s, "saved")
    /\ UNCHANGED <<usersFile, cache, username, Harness>>

\* Manage Inventory / Add Item, form submitted
AddItem(s, name, qty, reorder, remarks, exp) ==
    /\ Authenticated(s)
    /\ Len(auditLog) < MaxLog
    /\ Len(inventory[s].rows) < MaxRows
    /\ LET df == inventory[s].rows
           row == [id |-> next_item_id(ItemIds(df)), name |-> name, qty |-> qty,
                   reorder |-> reorder, remarks |-> remarks,
                   expiry |-> IF exp # "" THEN exp ELSE "N/A"]
       IN  save_inventory(s, Append(df, row), "Added new item")
    /\ Ran(s, "saved")
    /\ UNCHANGED <<usersFile, cache, username, Harness>>

\* Edit Item as it would be if the assignment left the Remarks column out
EditItem_SkipRemarks(s, sel_id, qty, reorder, remarks) ==
    /\ Authenticated(s)
    /\ Len(auditLog) < MaxLog
    /\ LET df == inventory[s].rows
           hits == {i \in 1..Len(df) : df[i].id = sel_id}
       IN  /\ hits # {}
           /\ Len(sel_id) > 0
           /\ LET row == df[CHOOSE i \in hits : \A j \in hits : i <= j]
              IN  IF row.qty < 0 \/ row.reorder < 0
                  THEN /\ Ran(s, "exception")
                       /\ UNCHANGED <<invFile, inventory, auditLog>>
                  ELSE /\ save_inventory(s,
                             [i \in 1..Len(df) |->
                                 IF df[i].id = sel_id
                                 THEN [df[i] EXCEPT !.qty = qty, !.reorder = reorder]
                                 ELSE df[i]],
                             "Edited item")
                       /\ Ran(s, "saved")
    /\ UNCHANGED <<usersFile, cache, username, Harness>>

\* Manage Inventory / Edit Item, form submitted; st.number_input raises when
\* the stored value is below min_value=0
EditItem(s, sel_id, qty, reorder, remarks) ==
    /\ Authenticated(s)
    /\ Len(auditLog) < MaxLog
    /\ LET df == inventory[s].rows
           hits == {i \in 1..Len(df) : df[i].id = sel_id}
       IN  /\ hits # {}
           /\ Len(sel_id) > 0
           /\ LET row == df[CHOOSE i \in hits : \A j \in hits : i <= j]
              IN  IF row.qty < 0 \/ row.reorder < 0
                  THEN /\ Ran(s, "exception")
                       /\ UNCHANGED <<invFile, inventory, auditLog>>
                  ELSE /\ save_inventory(s,
                             [i \in 1..Len(df) |->
                                 IF df[i].id = sel_id
                                 THEN [df[i] EXCEPT !.qty = qty, !.reorder = reorder,
                                                    !.remarks = remarks]
                                 ELSE df[i]],
                             "Edited item")
                       /\ Ran(s, "saved")
    /\ UNCHANGED <<usersFile, cache, username, Harness>>

\* Manage Inventory / Delete Item, button pressed
DeleteItem(s, del_id) ==
    /\ Authenticated(s)
    /\ Len(auditLog) < MaxLog
    /\ LET df == inventory[s].rows
       IN  /\ \E i \in 1..Len(df) : df[i].id = del_id
           /\ Len(del_id) > 0
           /\ save_inventory(s, SelectSeq(df, LAMBDA r : r.id # del_id), "Deleted item")
    /\ Ran(s, "saved")
    /\ UNCHANGED <<usersFile, cache, username, Harness>>

\* Bulk Upload as it would be without the test for the "Item ID" column
BulkUpload_NoColumnCheck(s, uploaded) ==
    /\ Authenticated(s)
    /\ Len(auditLog) < MaxLog
    /\ save_inventory(s,
          [i \in 1..Len(uploaded.rows) |-> CoerceRow(uploaded.rows[i], FALSE)],
          "Bulk inventory upload")
    /\ Ran(s, "saved")
    /\ UNCHANGED <<usersFile, cache, username, Harness>>

\* Manage Inventory / Bulk Upload, "Save uploaded inventory" pressed
BulkUpload(s, uploaded) ==
    /\ Authenticated(s)
    /\ IF ~uploaded.hasItemId
       THEN /\ Ran(s, "rejected")
            /\ UNCHANGED <<invFile, inventory, auditLog>>
       ELSE /\ Len(auditLog) < MaxLog
            /\ save_inventory(s,
                  [i \in 1..Len(uploaded.rows) |-> CoerceRow(uploaded.rows[i], FALSE)],
                  "Bulk inventory upload")
            /\ Ran(s, "saved")
    /\ UNCHANGED <<usersFile, cache, username, Harness>>

\* User Management opened by a session that is not the admin: lines 619-621
UserManagementDenied(s) ==
    /\ Authenticated(s)
    /\ ~is_admin_user(usersFile, username[s])
    /\ Ran(s, "admin_only_warning")
    /\ UNCHANGED <<usersFile, invFile, auditLog, cache, username, inventory, Harness>>

\* User Management / Create new user, form submitted
CreateUser(s, new_username, new_password, saltBytes) ==
    /\ Authenticated(s)
    /\ is_admin_user(usersFile, username[s])
    /\ LET r == add_user_to_csv(usersFile, new_username, new_password, saltBytes)
       IN  IF r.ok
           THEN /\ Len(auditLog) < MaxLog
                /\ Len(usersFile.rows) < MaxUsers
                /\ usersFile' = r.file
                /\ auditLog' = log_action(auditLog, username[s], "Created new user")
                /\ Ran(s, "created")
           ELSE /\ Ran(s, "already_exists")
                /\ UNCHANGED <<usersFile, auditLog>>
    /\ UNCHANGED <<invFile, cache, username, inventory, Harness>>

\* the options as they would be if one's own name were not left out
DeleteChoices_IncludeSelf(s) ==
    LET users_list == load_users(usersFile)
    IN  {users_list[i].username : i \in 1..Len(users_list)}

\* the options of the "Select user to delete" box: every listed name but one's own
DeleteChoices(s) ==
    LET users_list == load_users(usersFile)
    IN  {users_list[i].username : i \in {j \in 1..Len(users_list) :
                                           users_list[j].username # username[s]}}

\* User Management / Delete user, button pressed
DeleteUser(s, sel_del) ==
    /\ Authenticated(s)
    /\ is_admin_user(usersFile, username[s])
    /\ sel_del \in DeleteChoices(s)
    /\ sel_del # ""
    /\ LET r == delete_user_from_csv(usersFile, sel_del)
       IN  IF r.ok
           THEN /\ Len(auditLog) < MaxLog
                /\ usersFile' = r.file
                /\ auditLog' = log_action(auditLog, username[s], "Deleted user")
                /\ Ran(s, "deleted")
           ELSE /\ Ran(s, "not_found")
                /\ UNCHANGED <<usersFile, auditLog>>
    /\ UNCHANGED <<invFile, cache, username, inventory, Harness>>

\* create_users.py run from a shell
OfflineCreateUser(u, p, saltBytes) ==
    /\ LET r == create_user(usersFile, u, p, saltBytes)
       IN  IF r.ok
           THEN /\ Len(usersFile.rows) < MaxUsers
                /\ usersFile' = r.file
                /\ Ran(Offline, "created")
           ELSE /\ Ran(Offline, "already_exists")
                /\ UNCHANGED usersFile
    /\ UNCHANGED <<invFile, auditLog, cache, username, inventory, Harness>>

\* the runs every signed-out or signed-in session can make
SessionStep(s) ==
    \/ \E u \in UserPool, p \in PwPool : Login(s, u, p)
    \/ View(s)
    \/ Logout(s)
    \/ NewSession(s)

\* the runs of the Manage Inventory view
InventoryStep(s) ==
    \/ \E name \in NamePool, qty \in QtyPool, reorder \in ReorderPool,
          remarks \in RemarksPool, exp \in ExpPool :
            AddItem(s, name, qty, reorder, remarks, exp)
    \/ \E qty \in EditQtyPool, reorder \in EditReorderPool, remarks \in EditRemarksPool :
          \E sel_id \in Range(ItemIds(inventory[s].rows)) :
            EditItem(s, sel_id, qty, reorder, remarks)
    \/ \E del_id \in Range(ItemIds(inventory[s].rows)) : DeleteItem(s, del_id)
    \/ \E uploaded \in UploadPool : BulkUpload(s, uploaded)

\* the runs of the User Management view
UsersStep(s) ==
    \/ UserManagementDenied(s)
    \/ \E u \in UserPool, p \in NewPwPool, salt \in SaltPool : CreateUser(s, u, p, salt)
    \/ \E sel \in DeleteChoices(s) : DeleteUser(s, sel)

OfflineStep == \E u \in UserPool, p \in NewPwPool, salt \in SaltPool : OfflineCreateUser(u, p, salt)

\* The whole dashboard with one browser session, and the offline utility.
Next ==
    \/ SessionStep("s1")
    \/ InventoryStep("s1")
    \/ UsersStep("s1")
    \/ CacheExpire
    \/ OfflineStep

Spec == Init /\ [][Next]_vars

\* The credential store with two browser sessions and the offline utility.
NextUsers ==
    \/ \E s \in Sessions : SessionStep(s)
    \/ \E s \in Sessions : UsersStep(s)
    \/ OfflineStep

SpecUsers == Init /\ [][NextUsers]_vars

\* The inventory with two browser sessions; users.csv holds two users made
\* with create_users.py before the dashboard starts.
StoreOfTwo ==
    create_user(create_user(NoUsersFile, "amy", "pw1", <<171>>).file,
                "bob", "pw1", <<171>>).file

InitInventory ==
    /\ usersFile = StoreOfTwo
    /\ invFile \in {NoInvFile, HandMadeFile}
    /\ auditLog = <<>>
    /\ cache = [valid |-> FALSE, rows |-> <<>>]
    /\ username = [s \in Sessions |-> NoUser]
    /\ inventory = [s \in Sessions |-> [loaded |-> FALSE, rows |-> <<>>]]
    /\ last = [s |-> "none", res |-> "start"]
    /\ idTable = <<>>
    /\ idResult = <<>>
    /\ cred = [stage |-> "idle", pw |-> "", tried |-> "", ok |-> FALSE]
    /\ ExpiryIdle

NextInventory ==
    \/ \E s \in Sessions : SessionStep(s)
    \/ \E s \in Sessions : InventoryStep(s)
    \/ CacheExpire

SpecInventory == InitInventory /\ [][NextInventory]_vars

----------------------------------------------------------------------------
(***************************************************************************)
(* next_item_id on its own: a column of item ids is drawn, the function is *)
(* applied, and the id it returns is added to the column as Add Item does. *)
(***************************************************************************)
IdPool ==
    {LAB001, LAB003, lab002,
     <<"L", "A", "B">>,
     <<"L", "A", "B", "7">>,
     <<"L", "A", "B", "9", "9", "9">>,
     <<"L", "A", "B", "1", "x">>,
     <<"X", "0", "0", "9">>}

RECURSIVE SeqsUpTo(_, _)
\* the sequences over S of length at most n
SeqsUpTo(S, n) ==
    IF n = 0 THEN {<<>>}
    ELSE LET shorter == SeqsUpTo(S, n - 1)
         IN  shorter \cup {Append(q, x) : q \in shorter, x \in S}

AppFrozen ==
    /\ usersFile = NoUsersFile
    /\ invFile = NoInvFile
    /\ auditLog = <<>>
    /\ cache = [valid |-> FALSE, rows |-> <<>>]
    /\ username = [s \in Sessions |-> NoUser]
    /\ inventory = [s \in Sessions |-> [loaded |-> FALSE, rows |-> <<>>]]
    /\ last = [s |-> "none", res |-> "start"]

InitNextId ==
    /\ AppFrozen
    /\ idTable \in SeqsUpTo(IdPool, MaxIds)
    /\ idResult = <<>>
    /\ cred = [stage |-> "idle", pw |-> "", tried |-> "", ok |-> FALSE]
    /\ ExpiryIdle

\* new_id = next_item_id(df)
ComputeNextId ==
    /\ idResult = <<>>
    /\ idResult' = next_item_id(idTable)
    /\ UNCHANGED <<usersFile, invFile, auditLog, cache, username, inventory, last,
                   idTable, cred, expiryCol, expiryOut>>

\* df = pd.concat([df, pd.DataFrame([row])]) with the id just computed
AppendNextId ==
    /\ idResult # <<>>
    /\ Len(idTable) < MaxIds + 1
    /\ idTable' = Append(idTable, idResult)
    /\ idResult' = <<>>
    /\ UNCHANGED <<usersFile, invFile, auditLog, cache, username, inventory, last, cred,
                   expiryCol, expiryOut>>

NextNextId == ComputeNextId \/ AppendNextId

SpecNextId == InitNextId /\ [][NextNextId]_vars

----------------------------------------------------------------------------
(***************************************************************************)
(* The credential functions on their own: a user is created by the         *)
(* dashboard or by create_users.py, and a password is then verified        *)
(* against the row that was stored.                                        *)
(***************************************************************************)
CredPwPool == {"pw1", "pw2", ""}
CredSaltPool == {<<0>>, <<171>>, <<255, 16>>}

InitCred ==
    /\ AppFrozen
    /\ idTable = <<>>
    /\ idResult = <<>>
    /\ cred = [stage |-> "idle", pw |-> "", tried |-> "", ok |-> FALSE]
    /\ ExpiryIdle

CredCreate(viaApp, u, p, saltBytes) ==
    /\ Len(usersFile.rows) < MaxUsers
    /\ LET r == IF viaApp THEN add_user_to_csv(usersFile, u, p, saltBytes)
                ELSE create_user(usersFile, u, p, saltBytes)
       IN  /\ r.ok
           /\ usersFile' = r.file
           /\ cred' = [stage |-> "created", pw |-> p, tried |-> "", ok |-> FALSE]
    /\ UNCHANGED <<invFile, auditLog, cache, username, inventory, last, idTable, idResult,
                   expiryCol, expiryOut>>

\* verify_password_pbkdf2 as login_ui calls it, on the row stored last
CredVerify(p) ==
    /\ cred.stage = "created"
    /\ LET users_df == load_users(usersFile)
           row == users_df[Len(users_df)]
       IN  cred' = [cred EXCEPT !.stage = "verified", !.tried = p,
                       !.ok = verify_password_pbkdf2(p, row.salt, row.hash,
                                                     int(row.iterations))]
    /\ UNCHANGED <<usersFile, invFile, auditLog, cache, username, inventory, last,
                   idTable, idResult, expiryCol, expiryOut>>

\* delete_user_from_csv called with a username
CredDelete(u) ==
    /\ LET r == delete_user_from_csv(usersFile, u)
       IN  /\ usersFile' = r.file
           /\ cred' = [stage |-> IF r.ok THEN "deleted" ELSE "not_found",
                       pw |-> "", tried |-> "", ok |-> r.ok]
    /\ UNCHANGED <<invFile, auditLog, cache, username, inventory, last, idTable, idResult,
                   expiryCol, expiryOut>>

NextCred ==
    \/ \E viaApp \in BOOLEAN, u \in UserPool, p \in CredPwPool, salt \in CredSaltPool :
          CredCreate(viaApp, u, p, salt)
    \/ \E p \in CredPwPool : CredVerify(p)
    \/ \E u \in UserPool : CredDelete(u)

SpecCred == InitCred /\ [][NextCred]_vars

----------------------------------------------------------------------------
(***************************************************************************)
(* The expiry views on their own: the Expiry Monitor tab and the           *)
(* "Expiring <= 90 days" card of the Overview, applied to an "Expiry Date" *)
(* column.  Times are counted in hours from the midnight that starts the   *)
(* day of datetime.today(); a date cell is placed by the number of days    *)
(* between today's date and its date.                                      *)
(***************************************************************************)
MaxItems == 2    \* rows of the "Expiry Date" column explored

ExpiryDate(off) == [k |-> "date", off |-> off]   \* "YYYY-MM-DD", off days from today
ExpiryText == [k |-> "text", off |-> 0]          \* a text that is no date: "N/A"
ExpiryMissing == [k |-> "nan", off |-> 0]        \* an empty cell, NaN in the frame

\* dates explored; the earliest one is 1740-01-01 seen from 2026-11-01, which
\* to_datetime parses and whose distance from today fits a Timedelta
ExpiryPool ==
    {ExpiryDate(off) : off \in {-104763, -1, 0, 1, 30, 31, 90, 91, 365, 366, 367}}
        \cup {ExpiryText, ExpiryMissing}

\* datetime.today(): midnight sharp, or noon
TodPool == {0, 12}

NaT == [nat |-> TRUE, h |-> 0]

\* pd.to_datetime(cell, errors="coerce"): the midnight of the date, or NaT
to_datetime(cell) ==
    IF cell.k = "date" THEN [nat |-> FALSE, h |-> 24 * cell.off] ELSE NaT

\* Timedelta.days: whole days, rounded towards minus infinity
days(hours) == IF hours >= 0 THEN hours \div 24 ELSE -((-hours + 23) \div 24)

\* exp_df["Days to Expiry"] for one row: [nan, d]
DaysToExpiry(cell, tod) ==
    LET parsed == to_datetime(cell)
    IN  IF parsed.nat THEN [nan |-> TRUE, d |-> 0]
        ELSE [nan |-> FALSE, d |-> days(parsed.h - tod)]

\* Series.fillna(value) on one cell
fillna(x, value) == IF x.nan THEN value ELSE x.d

bins == <<-99999, 0, 30, 90, 365, 999999>>
labels == <<"Expired", "<30 days", "30-90 days", "3-12 months", ">1 year">>
NoStatus == "<NaN>"

\* pd.cut(x, bins=bins, labels=labels): intervals open on the left and closed
\* on the right; a value in no interval gets no category
cut(x) ==
    LET hit == {i \in 1..Len(labels) : bins[i] < x /\ x <= bins[i + 1]}
    IN  IF hit = {} THEN NoStatus ELSE labels[CHOOSE i \in hit : TRUE]

\* the options of the "Show" radio
exp_filters ==
    {"All with expiry dates", "Expired (<=0 days)", "Expiring <30 days", "Expiring <90 days"}

\* show: the rows the chosen filter lists (comparisons with NaN are False)
show(col, tod, exp_filter) ==
    {i \in 1..Len(col) :
        LET x == DaysToExpiry(col[i], tod)
        IN  CASE exp_filter = "All with expiry dates" -> ~to_datetime(col[i]).nat
              [] exp_filter = "Expired (<=0 days)" -> ~x.nan /\ x.d <= 0
              [] exp_filter = "Expiring <30 days" -> ~x.nan /\ x.d > 0 /\ x.d <= 30
              [] OTHER -> ~x.nan /\ x.d > 0 /\ x.d <= 90}

\* exp_df["Expiry Status"]
ExpiryStatus(col, tod) ==
    [i \in 1..Len(col) |-> cut(fillna(DaysToExpiry(col[i], tod), 999999))]

\* status_counts: value_counts().reindex(labels).fillna(0)
status_counts(status) ==
    [j \in 1..Len(labels) |-> Cardinality({i \in 1..Len(status) : status[i] = labels[j]})]

\* Overview: rows with Expiry Parsed <= datetime.today() + timedelta(days=90)
soon_count(col, tod) ==
    Cardinality({i \in 1..Len(col) :
        LET parsed == to_datetime(col[i])
        IN  ~parsed.nat /\ parsed.h <= tod + 90 * 24})

InitExpiry ==
    /\ AppFrozen
    /\ idTable = <<>>
    /\ idResult = <<>>
    /\ cred = [stage |-> "idle", pw |-> "", tried |-> "", ok |-> FALSE]
    /\ expiryCol \in [col : SeqsUpTo(ExpiryPool, MaxItems), tod : TodPool]
    /\ expiryOut = NoExpiryOut

\* a run of the script with the Expiry Monitor tab selected
ExpiryMonitor(exp_filter) ==
    /\ LET status == ExpiryStatus(expiryCol.col, expiryCol.tod)
       IN  expiryOut' = [view |-> "monitor", filter |-> exp_filter,
                         show |-> show(expiryCol.col, expiryCol.tod, exp_filter),
                         status |-> status, counts |-> status_counts(status), soon |-> 0]
    /\ UNCHANGED <<usersFile, invFile, auditLog, cache, username, inventory, last,
                   idTable, idResult, cred, expiryCol>>

\* a run of the script with the Overview tab selected
Overview ==
    /\ expiryOut' = [view |-> "overview", filter |-> "", show |-> {}, status |-> <<>>,
                     counts |-> <<>>,
                     soon |-> soon_count(expiryCol.col, expiryCol.tod)]
    /\ UNCHANGED <<usersFile, invFile, auditLog, cache, username, inventory, last,
                   idTable, idResult, cred, expiryCol>>

NextExpiry ==
    \/ \E exp_filter \in exp_filters : ExpiryMonitor(exp_filter)
    \/ Overview

SpecExpiry == InitExpiry /\ [][NextExpiry]_vars

----------------------------------------------------------------------------
(***************************************************************************)
(* Properties.                                                             *)
(***************************************************************************)
\* the records of users.csv, as written, whose username is u
StoredRows(u) == {i \in 1..Len(usersFile.rows) : usersFile.rows[i].username = u}

\* the password p matches some stored record of u
Matches(u, p) ==
    \E i \in StoredRows(u) :
        pbkdf2_hex(p, unhexlify(usersFile.rows[i].salt), int(usersFile.rows[i].iterations))
            = usersFile.rows[i].hash

\* C1: a session gets a username only through a login whose username is in
\* the credential store and whose password matches the stored record; a login
\* with an absent username or a wrong password leaves the session signed out
\* and shows the error; a run of a signed-out session shows only the login
\* screen and changes neither the inventory, nor the users, nor the audit log.
C1_LoginGate ==
    [][\A s \in Sessions :
          /\ (username[s] = NoUser /\ username'[s] # NoUser)
                => /\ last'.s = s
                   /\ \E p \in PwPool : Login(s, username'[s], p) /\ Matches(username'[s], p)
          /\ \A u \in UserPool, p \in PwPool :
                (last'.s = s /\ username[s] = NoUser /\ ~Matches(u, p) /\ Login(s, u, p))
                    => (username'[s] = NoUser /\ last'.res = "invalid")
          /\ (last'.s = s /\ username[s] = NoUser /\ username'[s] = NoUser)
                => /\ UNCHANGED <<usersFile, invFile, auditLog>>
                   /\ last'.res \in {"login_prompt", "invalid"}
      ]_vars

\* C1 witness: a login was refused while users exist, and nothing was logged
C1_Witness ==
    /\ last = [s |-> "s1", res |-> "invalid"]
    /\ Len(usersFile.rows) > 0
    /\ username["s1"] = NoUser
    /\ auditLog = <<>>

\* the session s is signed in as the user of the first record of users.csv
IsFirstRow(s) ==
    /\ username[s] # NoUser
    /\ Len(usersFile.rows) > 0
    /\ usersFile.rows[1].username = username[s]

\* C2: a run of the dashboard changes users.csv only in a session signed in
\* as the user of the first record; a User Management run in any other
\* signed-in session shows the warning and changes nothing; with no record
\* nobody is admin.
C2_AdminOnly ==
    [][/\ \A s \in Sessions :
            /\ (last'.s = s /\ usersFile' # usersFile) => IsFirstRow(s)
            /\ (last'.s = s /\ ~IsFirstRow(s) /\ UsersStep(s))
                  => /\ last'.res = "admin_only_warning"
                     /\ UNCHANGED <<usersFile, invFile, auditLog>>
       /\ Len(usersFile.rows) = 0
            => \A u \in UserPool \cup {NaN} : ~is_admin_user(usersFile, u)
      ]_vars

\* C2 witness: a second user is signed in, opened User Management and got the
\* warning
C2_Witness ==
    /\ last.res = "admin_only_warning"
    /\ username[last.s] # NoUser
    /\ ~IsFirstRow(last.s)
    /\ Len(usersFile.rows) > 1

\* the step is a run of session s that completed a mutation
Completed(s) == last'.s = s /\ last'.res \in {"saved", "created", "deleted"}

C4_VerifyAfterCreate ==
    cred.stage = "verified" => (cred.ok <=> cred.tried = cred.pw)

\* C4 witness: the right password was accepted for the second user created
C4_Witness ==
    /\ cred.stage = "verified"
    /\ cred.ok
    /\ cred.tried = "pw2"
    /\ Len(usersFile.rows) = 2

NoRepeat(q) == \A i, j \in 1..Len(q) : i # j => q[i] # q[j]

\* C5: no two rows of the inventory have the same Item ID, in the file and in
\* every session's table.
C5_ItemIdsUnique ==
    /\ NoRepeat(ItemIds(invFile.rows))
    /\ \A s \in Sessions : NoRepeat(ItemIds(inventory[s].rows))

\* C6: no two records of users.csv have the same username (a create with a
\* username that is already stored is refused and adds no record).
C6_UsernamesUnique ==
    NoRepeat([i \in 1..Len(usersFile.rows) |-> usersFile.rows[i].username])

\* C7: delete of a username that no stored record has reports not-found and
\* leaves users.csv as it is; delete of a username that a stored record has
\* succeeds and removes exactly the records of that username, the others
\* staying in their order.
C7_DeleteContract ==
    [][\A u \in UserPool :
          CredDelete(u) =>
              IF StoredRows(u) = {}
              THEN cred'.stage = "not_found" /\ usersFile' = usersFile
              ELSE /\ cred'.stage = "deleted"
                   /\ usersFile'.rows = SelectSeq(usersFile.rows, LAMBDA r : r.username # u)
      ]_vars

\* C8: "Save uploaded inventory" for a workbook without an "Item ID" column
\* shows the error and leaves the inventory file, the session's table and the
\* audit log unchanged.
C8_UploadWithoutItemIdRejected ==
    [][\A s \in Sessions, uploaded \in UploadPool :
          (last'.s = s /\ ~uploaded.hasItemId /\ BulkUpload(s, uploaded))
              => /\ last'.res = "rejected"
                 /\ UNCHANGED <<invFile, inventory, auditLog>>
      ]_vars

\* C8 witness: an upload was rejected in a session that had saved a row before
C8_Witness ==
    /\ last.res = "rejected"
    /\ Len(invFile.rows) > 0
    /\ Len(auditLog) > 0
    /\ invFile = to_excel(inventory[last.s].rows)

\* C9: next_item_id returns LAB followed by the number one above the largest
\* number of the ids that read LAB plus digits (1 when there is none), written
\* with at least three digits and zero padded; it is never an id of the table;
\* {LAB001, LAB003} gives LAB004 and the empty table LAB001.
C9_NextId ==
    idResult # <<>> =>
        LET nums == {int(SubSeq(v, 4, Len(v))) : v \in {w \in Range(idTable) : IsLabId(w)}}
            expected == IF nums = {} THEN 1 ELSE Max(nums) + 1
            digits == SubSeq(idResult, 4, Len(idResult))
        IN  /\ SubSeq(idResult, 1, 3) = <<"L", "A", "B">>
            /\ isdigit(digits)
            /\ int(digits) = expected
            /\ Len(digits) >= 3
            /\ Len(digits) > 3 => digits[1] # "0"
            /\ idResult \notin Range(idTable)
            /\ Range(idTable) = {LAB001, LAB003} => idResult = <<"L", "A", "B", "0", "0", "4">>
            /\ idTable = <<>> => idResult = <<"L", "A", "B", "0", "0", "1">>

\* C9 witness: the table {LAB001, LAB003} got LAB004
C9_Witness ==
    /\ idTable = <<LAB001, LAB003>>
    /\ idResult = <<"L", "A", "B", "0", "0", "4">>

\* C10: Quantity and Reorder Level of every row of every session's table are
\* integers that are not negative.
C10_NonNegative ==
    \A s \in Sessions : \A i \in 1..Len(inventory[s].rows) :
        /\ inventory[s].rows[i].qty \in Nat
        /\ inventory[s].rows[i].reorder \in Nat

\* C11: two sessions that loaded the same table each work on their own copy;
\* a save by a session writes that session's whole table over the file,
\* whatever the file held, leaves the other session's copy as it was and
\* reports no error, so a change the other session saved before is gone from
\* the file.
C11_LastSaveWins ==
    [][\A s \in Sessions :
          /\ (last'.s = s /\ invFile' # invFile)
                => /\ last'.res = "saved"
                   /\ invFile' = to_excel(inventory'[s].rows)
                   /\ \A t \in Sessions \ {s} : inventory'[t] = inventory[t]
          /\ (last'.s = s /\ InventoryStep(s)
                /\ invFile # to_excel(inventory[s].rows))
                => \/ last'.res = "saved" /\ invFile' = to_excel(inventory'[s].rows)
                   \/ last'.res \in {"rejected", "exception"} /\ invFile' = invFile
      ]_vars

\* C11 witness: amy deleted LAB001 in s1 and saved, then bob edited in s2 and
\* saved: the file holds LAB001 again, s1's table does not, nobody saw an error
C11_Witness ==
    /\ last = [s |-> "s2", res |-> "saved"]
    /\ Len(auditLog) = 2
    /\ auditLog[1] = [user |-> "amy", action |-> "Deleted item"]
    /\ auditLog[2] = [user |-> "bob", action |-> "Edited item"]
    /\ username = [s \in Sessions |-> IF s = "s1" THEN "amy" ELSE "bob"]
    /\ inventory["s1"].loaded
    /\ LAB001 \notin Range(ItemIds(inventory["s1"].rows))
    /\ LAB001 \in Range(ItemIds(invFile.rows))
    /\ invFile = to_excel(inventory["s2"].rows)

\* the rows of the column whose date parses
Dated == {i \in 1..Len(expiryCol.col) : expiryCol.col[i].k = "date"}

\* the bucket the days to expiry call for
BucketOf(d) ==
    CASE d <= 0 -> "Expired"
      [] d >= 1 /\ d <= 30 -> "<30 days"
      [] d >= 31 /\ d <= 90 -> "30-90 days"
      [] d >= 91 /\ d <= 365 -> "3-12 months"
      [] OTHER -> ">1 year"

\* C12: the Expiry Monitor gives every row whose expiry date parses exactly
\* one status, the one its days to expiry call for: Expired (<= 0), <30 days
\* (1..30), 30-90 days (31..90), 3-12 months (91..365), >1 year (> 365); a
\* date exactly 90 days from today is in 30-90 days.
C12_ExpiryBuckets ==
    expiryOut.view = "monitor" =>
        \A i \in Dated :
            /\ expiryOut.status[i] = BucketOf(DaysToExpiry(expiryCol.col[i], expiryCol.tod).d)
            /\ expiryCol.col[i] = ExpiryDate(90) => expiryOut.status[i] = "30-90 days"

\* C13: a row whose expiry date does not parse is in no date-bounded listing,
\* has no status and is in none of the status counts, and is not counted in the
\* Overview's expiring card.
C13_UnparsedExcluded ==
    /\ expiryOut.view = "monitor" =>
          /\ \A i \in (1..Len(expiryCol.col)) \ Dated :
                /\ i \notin expiryOut.show
                /\ expiryOut.status[i] = NoStatus
          /\ \A j \in 1..Len(labels) :
                expiryOut.counts[j] = Cardinality({i \in Dated : expiryOut.status[i] = labels[j]})
    /\ expiryOut.view = "overview" => expiryOut.soon <= Cardinality(Dated)

\* the number of rows of a table that carry the id
Occurrences(id, rows) == Cardinality({i \in 1..Len(rows) : rows[i].id = id})

\* the step is a completed Add Item of session s
Added(s) ==
    /\ last'.s = s
    /\ last'.res = "saved"
    /\ Len(auditLog') = Len(auditLog) + 1
    /\ auditLog'[Len(auditLog')].action = "Added new item"

\* C14: an add gives the new row the id computed from the session's own
\* table, so two sessions that hold the same table add under the same id; the
\* file after an add still holds the new id once, also when the other session
\* has saved its add under that id before.
C14_SameIdOnce ==
    [][\A s \in Sessions :
          Added(s) =>
              LET new_id == next_item_id(ItemIds(inventory[s].rows))
              IN  /\ inventory'[s].rows[Len(inventory'[s].rows)].id = new_id
                  /\ Occurrences(new_id, invFile'.rows) = 1
      ]_vars

\* C14 witness: two users in two sessions both added to the empty table they
\* had both loaded; each table holds LAB001 and the file holds it once
C14_Witness ==
    /\ last.res = "saved"
    /\ Len(auditLog) = 2
    /\ auditLog[1].action = "Added new item"
    /\ auditLog[2].action = "Added new item"
    /\ auditLog[1].user # auditLog[2].user
    /\ username["s1"] # username["s2"]
    /\ inventory["s1"].rows = inventory["s2"].rows
    /\ Len(invFile.rows) = 1
    /\ ItemIds(invFile.rows) = <<LAB001>>

C16_AppendOnly ==
    [][/\ Len(auditLog') >= Len(auditLog)
       /\ SubSeq(auditLog', 1, Len(auditLog)) = auditLog
       /\ Len(auditLog') <= Len(auditLog) + 1
       /\ Len(auditLog') = Len(auditLog) + 1
            => /\ last'.s \in Sessions
               /\ last'.res \in {"saved", "created", "deleted"}
               /\ auditLog'[Len(auditLog')].user = username[last'.s]
      ]_vars

\* C16 witness: bob's add in s2 was logged first, amy's delete in s1 second
C16_Witness ==
    /\ auditLog = <<[user |-> "bob", action |-> "Added new item"],
                    [user |-> "amy", action |-> "Deleted item"]>>
    /\ last = [s |-> "s1", res |-> "saved"]
    /\ username = [s \in Sessions |-> IF s = "s1" THEN "amy" ELSE "bob"]

\* C17: once users.csv has a first record, no step removes or displaces it:
\* a create adds its record at the end, a delete leaves the remaining records
\* in their order, is made only in a session signed in as the first record's
\* user and never with that session's own username.
C17_AdminStays ==
    [][/\ Len(usersFile.rows) > 0
            => /\ Len(usersFile'.rows) > 0
               /\ usersFile'.rows[1] = usersFile.rows[1]
       /\ last'.res = "created"
            => /\ Len(usersFile'.rows) = Len(usersFile.rows) + 1
               /\ SubSeq(usersFile'.rows, 1, Len(usersFile.rows)) = usersFile.rows
       /\ \A s \in Sessions :
            (last'.s = s /\ last'.res = "deleted")
                => /\ IsFirstRow(s)
                   /\ \E sel \in Range([i \in 1..Len(usersFile.rows) |->
                                            usersFile.rows[i].username]) \ {username[s]} :
                         /\ DeleteUser(s, sel)
                         /\ usersFile'.rows =
                                SelectSeq(usersFile.rows, LAMBDA r : r.username # sel)
      ]_vars

\* C17 witness: the admin of the first record created a user and deleted one;
\* the first record is still the admin's
C17_Witness ==
    /\ last.res = "deleted"
    /\ Len(auditLog) = 2
    /\ auditLog[1].action = "Created new user"
    /\ auditLog[2].action = "Deleted user"
    /\ Len(usersFile.rows) > 0
    /\ usersFile.rows[1].username = auditLog[2].user
    /\ username[last.s] = usersFile.rows[1].username

\* C18: the table a session loads into st.session_state when it starts is
\* the table the inventory file holds at that moment, with every save made
\* before.
C18_FreshLoad ==
    [][\A s \in Sessions :
          (~inventory[s].loaded /\ inventory'[s].loaded)
              => inventory'[s].rows = read_inventory(invFile)
      ]_vars

====
